---- MODULE Spec2Model ----
(***************************************************************************)
(* Model of src/app.py: the Streamlit movie recommender.                   *)
(*                                                                         *)
(* The state is the three artifacts on disk, the st.cache_resource entry   *)
(* of load_models, and the position and locals of one script run (main)    *)
(* or of one direct call of get_recommendations.                           *)
(*                                                                         *)
(* Conventions.  A string is a tuple of one-character strings, so that it  *)
(* can be indexed.  Row positions, index labels and neighbor indices are   *)
(* 0-based as in the source; sequence s holds position p at s[p + 1].      *)
(***************************************************************************)
EXTENDS Integers, Sequences, FiniteSets, TLC

(***************************************************************************)
(* Bounds of the model.                                                    *)
(***************************************************************************)
\* Largest catalog (number of rows of the movies table).
MaxRows == 3
\* Largest count n passed by a direct call of get_recommendations.
MaxN == 2
\* Largest n_neighbors the neighbor index was trained with.
MaxK == 3
\* Cap on the number of times one artifact file is read (failed loads retry).
MaxReads == 3

(***************************************************************************)
(* Program constants.                                                      *)
(***************************************************************************)
\* get_close_matches(..., cutoff=0.3), as the fraction CutoffNum / CutoffDen.
CutoffNum == 3
CutoffDen == 10
\* get_recommendations(movie_title, models, 5) in main.
MainN == 5

\* A row position or label that is not set (Python's None).
NoRow == -1

(***************************************************************************)
(* Strings.                                                                *)
(***************************************************************************)
Min(x, y) == IF x <= y THEN x ELSE y
Max(x, y) == IF x >= y THEN x ELSE y

\* str.lower() on one character.
LowerChar(c) ==
  CASE c = "A" -> "a"
    [] c = "B" -> "b"
    [] c = "C" -> "c"
    [] c = "D" -> "d"
    [] OTHER -> c

\* str.lower(): movie_title.lower() and movies['title'].str.lower().
Lower(s) == [i \in 1..Len(s) |-> LowerChar(s[i])]

\* Code point order of the characters of the model's alphabet.
Ord(c) ==
  CASE c = "A" -> 65
    [] c = "B" -> 66
    [] c = "C" -> 67
    [] c = "D" -> 68
    [] c = "a" -> 97
    [] c = "b" -> 98
    [] c = "c" -> 99
    [] c = "d" -> 100
    [] OTHER -> 0

\* Python's s < t on strings: lexicographic by code point, a proper prefix first.
StrLess(s, t) ==
  \E i \in 1..(Len(t)) :
     /\ \A j \in 1..(i - 1) : j <= Len(s) /\ s[j] = t[j]
     /\ i - 1 <= Len(s)
     /\ \/ i = Len(s) + 1
        \/ i <= Len(s) /\ Ord(s[i]) < Ord(t[i])

(***************************************************************************)
(* difflib.SequenceMatcher (isjunk None; autojunk needs len(b) >= 200).    *)
(* Ranges are half open over 0-based positions as in difflib: a[alo:ahi].  *)
(***************************************************************************)
\* Length of the longest common run of a starting at i and b starting at j.
RECURSIVE RunLen(_, _, _, _, _, _)
RunLen(a, b, i, j, ahi, bhi) ==
  IF i < ahi /\ j < bhi /\ a[i + 1] = b[j + 1]
    THEN 1 + RunLen(a, b, i + 1, j + 1, ahi, bhi)
    ELSE 0

\* SequenceMatcher.find_longest_match: <<i, j, k>> with k maximal, then the
\* block starting earliest in a, then the one starting earliest in b.
FindLongestMatch(a, b, alo, ahi, blo, bhi) ==
  LET cand == {<<i, j, RunLen(a, b, i, j, ahi, bhi)>> :
                 i \in alo..(ahi - 1), j \in blo..(bhi - 1)}
      pos == {c \in cand : c[3] > 0}
      Better(c, d) ==
        \/ c[3] > d[3]
        \/ c[3] = d[3] /\ c[1] < d[1]
        \/ c[3] = d[3] /\ c[1] = d[1] /\ c[2] < d[2]
  IN IF pos = {} THEN <<alo, blo, 0>>
     ELSE CHOOSE c \in pos : \A d \in pos \ {c} : Better(c, d)

\* Total size of SequenceMatcher.get_matching_blocks over a[alo:ahi], b[blo:bhi].
RECURSIVE Matches(_, _, _, _, _, _)
Matches(a, b, alo, ahi, blo, bhi) ==
  LET m == FindLongestMatch(a, b, alo, ahi, blo, bhi)
  IN IF m[3] = 0 THEN 0
     ELSE m[3] + Matches(a, b, alo, m[1], blo, m[2])
               + Matches(a, b, m[1] + m[3], ahi, m[2] + m[3], bhi)

\* difflib._calculate_ratio as the fraction <<numerator, denominator>>.
CalculateRatio(matches, length) ==
  IF length > 0 THEN <<2 * matches, length>> ELSE <<1, 1>>

\* SequenceMatcher(a, b).ratio().
Ratio(a, b) == CalculateRatio(Matches(a, b, 0, Len(a), 0, Len(b)), Len(a) + Len(b))

\* Number of positions of s holding c.
Count(s, c) == Cardinality({i \in 1..Len(s) : s[i] = c})

\* SequenceMatcher(a, b).quick_ratio(): size of the multiset intersection.
QuickRatio(a, b) ==
  LET chars == {a[i] : i \in 1..Len(a)}
      inter == [c \in chars |-> Min(Count(a, c), Count(b, c))]
      RECURSIVE Sum(_)
      Sum(S) == IF S = {} THEN 0
                ELSE LET c == CHOOSE x \in S : TRUE IN inter[c] + Sum(S \ {c})
  IN CalculateRatio(Sum(chars), Len(a) + Len(b))

\* SequenceMatcher(a, b).real_quick_ratio().
RealQuickRatio(a, b) == CalculateRatio(Min(Len(a), Len(b)), Len(a) + Len(b))

\* r >= cutoff on fractions.
AtLeastCutoff(r) == r[1] * CutoffDen >= CutoffNum * r[2]

\* r < q on fractions.
RatioLess(r, q) == r[1] * q[2] < q[1] * r[2]

\* Mutant of GetCloseMatches: the first possibility that clears the cutoff
\* instead of the best one.
GetCloseMatchesFirst(word, possibilities) ==
  LET ok == {i \in 1..Len(possibilities) :
               AtLeastCutoff(Ratio(possibilities[i], word))}
  IN IF ok = {} THEN <<>>
     ELSE <<possibilities[CHOOSE i \in ok : \A j \in ok : i <= j]>>

\* difflib.get_close_matches(word, possibilities, n=1, cutoff=0.3): the
\* possibilities passing the three ratio tests, then heapq.nlargest(1, ...) on
\* (score, x): the best score, and among equal scores the greatest string.
GetCloseMatches(word, possibilities) ==
  LET ok == {i \in 1..Len(possibilities) :
               /\ AtLeastCutoff(RealQuickRatio(possibilities[i], word))
               /\ AtLeastCutoff(QuickRatio(possibilities[i], word))
               /\ AtLeastCutoff(Ratio(possibilities[i], word))}
      Score(i) == Ratio(possibilities[i], word)
      Below(i, j) ==
        \/ RatioLess(Score(i), Score(j))
        \/ /\ Score(i)[1] * Score(j)[2] = Score(j)[1] * Score(i)[2]
           /\ StrLess(possibilities[i], possibilities[j])
  IN IF ok = {} THEN <<>>
     ELSE LET best == CHOOSE i \in ok : \A j \in ok : ~Below(i, j)
          IN <<possibilities[best]>>


(***************************************************************************)
(* Artifacts.  A catalog row is [label, title, genres]: its pandas index    *)
(* label, its title and its list of genres; the row's identity is its      *)
(* position.  A feature vector is a point on a line, and the index's       *)
(* metric is the distance on that line.                                    *)
(***************************************************************************)
Files == {"movies", "knn", "tfidf_matrix"}

\* Titles of the catalogs of the model: two that case-fold to the same string,
\* a reordering of them, and one long enough for a ratio in (0, 0.3).
TitlePool ==
  { <<"a", "b">>, <<"A", "b">>, <<"b", "a">>,
    <<"c", "c", "c", "c", "c", "c", "a">> }

\* Texts typed into st.text_input: every title, and some that are no title.
InputPool == TitlePool \cup { <<>>, <<"a">>, <<"d">>, <<"A", "B">> }

\* Distinct titles by position, for catalogs in which each row has its own.
RowTitles == << <<"a", "b">>, <<"b", "a">>,
                <<"c", "c", "c", "c", "c", "c", "a">>, <<"d">>, <<"c">> >>

\* Feature values.
FeatPool == {0, 1, 3}

\* Index labels of a catalog of rows rows: the default RangeIndex, labels
\* 1..rows, and the labels of a table sorted in descending label order.
LabelSchemes == {"range", "shift", "reverse"}
LabelOf(scheme, rows, p) ==
  CASE scheme = "range" -> p
    [] scheme = "shift" -> p + 1
    [] OTHER -> rows - 1 - p

\* <<dT, dF>>: rows of the feature matrix and samples the index was fitted on,
\* relative to the number of catalog rows: equal, or matrix and index one row
\* short, or the index alone one sample short.
DimPool == { <<0, 0>>, <<-1, -1>>, <<0, -1>> }
\* Matrix and index one row longer than the catalog.
LongDims == { <<1, 1>> }

AllPresent == [f \in Files |-> TRUE]
\* Which artifact files exist: all, or all but one, or none.
PresentPool ==
  {AllPresent, [f \in Files |-> FALSE]}
    \cup {[f \in Files |-> f # g] : g \in Files}

Prefix(s, len) == [i \in 1..len |-> s[i]]

\* Genre lists of a row: none, or one genre.
GenrePool == { <<>>, <<"g">> }

\* The artifact sets on disk for the given choices: titleSeqs[rows] and
\* genreSeqs[rows] are the title and genres columns of a catalog of rows rows,
\* featSeqs[len] the feature columns of len vectors.
Disks(titleSeqs, genreSeqs, schemes, featSeqs, ks, dims, presents) ==
  UNION { UNION { UNION {
    { [present |-> pr,
       movies |-> [i \in 1..rows |->
                     [label |-> LabelOf(sc, rows, i - 1), title |-> ts[i],
                      genres |-> gs[i]]],
       tfidf_matrix |-> Prefix(fs, rows + d[1]),
       knn |-> [fit_X |-> Prefix(fs, rows + d[2]), n_neighbors |-> k]]
      : ts \in titleSeqs[rows], gs \in genreSeqs[rows], sc \in schemes,
        k \in ks, pr \in presents }
    : fs \in featSeqs[rows + Max(d[1], d[2])] }
    : d \in {e \in dims : rows + e[1] >= 1 /\ rows + e[2] >= 1} }
    : rows \in 1..MaxRows }

\* Title columns: any titles of the pool, or each row its own title.
AnyTitles == [rows \in 1..MaxRows |-> [1..rows -> TitlePool]]
OwnTitles == [rows \in 1..MaxRows |-> {[i \in 1..rows |-> RowTitles[i]]}]
\* Genres columns: any lists of the pool, or one genre in every row.
AnyGenres == [rows \in 1..MaxRows |-> [1..rows -> GenrePool]]
OneGenre == [rows \in 1..MaxRows |-> {[i \in 1..rows |-> <<"g">>]}]
\* Feature columns: any values of the pool, or each row its own value.
AnyFeats == [len \in 1..(MaxRows + 1) |-> [1..len -> FeatPool]]
OwnFeats == [len \in 1..(MaxRows + 1) |-> {[i \in 1..len |-> i - 1]}]

VARIABLES
  disk,            \* the artifacts under models/
  cache,           \* st.cache_resource's entries for load_models: {} or {the dict}
  reads,           \* reads[f]: how often artifact file f has been read
  fromCache,       \* this run's load_models() was answered from the cache
  pc,              \* "idle", "widgets" (main after load_models), "call", "render"
  caller,          \* who called get_recommendations: "main", "direct" or "none"
  pressed,         \* st.button("Get Recommendations") of this script run
  movie_title,     \* the text input
  n,               \* the count passed to get_recommendations
  matcherInvoked,  \* get_close_matches ran in this run
  knnQueried,      \* knn.kneighbors ran in this run
  matches,         \* get_close_matches' answer
  movie_idx,       \* movies[...].index[0]
  indices,         \* knn.kneighbors' answer, indices[0]
  result,          \* what get_recommendations returned, or that it raised
  outcome          \* what the script run showed

vars == <<disk, cache, reads, fromCache, pc, caller, pressed, movie_title, n,
          matcherInvoked, knnQueried, matches, movie_idx, indices, result, outcome>>

locals == <<fromCache, caller, pressed, movie_title, n, matcherInvoked, knnQueried,
            matches, movie_idx, indices, result>>

NoResult == [kind |-> "unset", recommendations |-> <<>>, original |-> NoRow]

\* The state before the first script run, for the artifacts of D.
InitOn(D) ==
  /\ disk \in D
  /\ cache = {}
  /\ reads = [f \in Files |-> 0]
  /\ fromCache = FALSE
  /\ pc = "idle"
  /\ caller = "none"
  /\ pressed = FALSE
  /\ movie_title = <<>>
  /\ n = 0
  /\ matcherInvoked = FALSE
  /\ knnQueried = FALSE
  /\ matches = <<>>
  /\ movie_idx = NoRow
  /\ indices = <<>>
  /\ result = NoResult
  /\ outcome = "none"

ResetLocals ==
  /\ caller' = "none"
  /\ pressed' = FALSE
  /\ movie_title' = <<>>
  /\ n' = 0
  /\ matcherInvoked' = FALSE
  /\ knnQueried' = FALSE
  /\ matches' = <<>>
  /\ movie_idx' = NoRow
  /\ indices' = <<>>
  /\ result' = NoResult


(***************************************************************************)
(* load_models, behind st.cache_resource.                                  *)
(***************************************************************************)
\* The files load_models reads, in the order of its dict literal.
LoadOrder == <<"movies", "knn", "tfidf_matrix">>

\* The files read by one execution of load_models' body on disk d: all of them,
\* or those before the first that is missing (joblib.load / load_npz raise).
FilesRead(d) ==
  {LoadOrder[i] : i \in {j \in 1..Len(LoadOrder) :
                           \A h \in 1..(j - 1) : d.present[LoadOrder[h]]}}
    \cap {f \in Files : d.present[f]}

\* Whether load_models' body returns (every artifact loads).
LoadSucceeds(d) == \A f \in Files : d.present[f]

\* The dict load_models returns.
LoadModels(d) ==
  [movies |-> d.movies, knn |-> d.knn, tfidf_matrix |-> d.tfidf_matrix]

\* Mutant of RunsBody: load_models without the cache decorator.
RunsBodyAlways(c) == TRUE

\* Whether a call of load_models runs its body: st.cache_resource runs it only
\* when it holds no entry (a call that raised left none).
RunsBody(c) == c = {}

(***************************************************************************)
(* get_recommendations.                                                    *)
(***************************************************************************)
\* Mutant of LowerTitles: the titles as stored, not lowered.
LowerTitlesAsStored(movies) == [i \in 1..Len(movies) |-> movies[i].title]

\* movies['title'].str.lower()
LowerTitles(movies) == [i \in 1..Len(movies) |-> Lower(movies[i].title)]

\* Mutant of FirstOf: .index[-1], the last row selected.
LastOf(hits) == CHOOSE i \in hits : \A j \in hits : i >= j

\* Which of the rows selected by the mask .index[0] takes: the first.
FirstOf(hits) == CHOOSE i \in hits : \A j \in hits : i <= j

\* Position of the row movies[movies['title'].str.lower() == match] lists first.
MatchedPos(movies, match) ==
  FirstOf({i \in 1..Len(movies) : LowerTitles(movies)[i] = match}) - 1

\* movies[movies['title'].str.lower() == match].index[0]: that row's label.
MovieIdx(movies, match) == movies[MatchedPos(movies, match) + 1].label

\* The index's metric.
Dist(x, y) == IF x >= y THEN x - y ELSE y - x

\* knn.kneighbors(q) when n_neighbors <= n_samples_fit: every answer the index
\* may give, n_neighbors distinct samples that are nearest to q, by increasing
\* distance; samples at equal distance come in an order the index chooses.
KNeighbors(knn, q) ==
  LET fit == knn.fit_X
      k == knn.n_neighbors
      D(p) == Dist(q, fit[p + 1])
  IN {s \in [1..k -> 0..(Len(fit) - 1)] :
        /\ \A i, j \in 1..k : i # j => s[i] # s[j]
        /\ \A i \in 1..(k - 1) : D(s[i]) <= D(s[i + 1])
        /\ \A p \in 0..(Len(fit) - 1) :
             (\A i \in 1..k : s[i] # p) => D(p) >= D(s[k])}

\* Mutant of Slice: the same neighbors in catalog order, as a boolean mask
\* (movies.index.isin(...)) would select them.
SliceInCatalogOrder(ind, cnt) ==
  SortSeq(SubSeq(ind, 2, Min(cnt + 1, Len(ind))), LAMBDA x, y : x < y)

\* indices[0][1:n+1]
Slice(ind, cnt) == SubSeq(ind, 2, Min(cnt + 1, Len(ind)))

\* Whether movies.iloc[p] (or tfidf_matrix[p]) is within a table of len rows.
InBounds(p, len) == 0 <= p /\ p < len

Raised(m, idx, queried, ind) ==
  [matches |-> m, movie_idx |-> idx, knnQueried |-> queried, indices |-> ind,
   result |-> [kind |-> "raise", recommendations |-> <<>>, original |-> NoRow]]

\* Every execution of get_recommendations(title, models, cnt): its locals and
\* what it returns.  Rows are given by position.
GetRecommendations(title, models, cnt) ==
  LET movies == models.movies
      knn == models.knn
      tfidf_matrix == models.tfidf_matrix
      m == GetCloseMatches(Lower(title), LowerTitles(movies))
  IN IF m = <<>>
       THEN {[matches |-> m, movie_idx |-> NoRow, knnQueried |-> FALSE,
              indices |-> <<>>,
              result |-> [kind |-> "none", recommendations |-> <<>>,
                          original |-> NoRow]]}
       ELSE LET idx == MovieIdx(movies, m[1])
            IN IF ~InBounds(idx, Len(tfidf_matrix))
                 THEN {Raised(m, idx, FALSE, <<>>)}
               ELSE IF knn.n_neighbors > Len(knn.fit_X)
                 THEN {Raised(m, idx, TRUE, <<>>)}
               ELSE { IF \/ \E i \in 1..Len(Slice(ind, cnt)) :
                               ~InBounds(Slice(ind, cnt)[i], Len(movies))
                         \/ ~InBounds(idx, Len(movies))
                        THEN Raised(m, idx, TRUE, ind)
                        ELSE [matches |-> m, movie_idx |-> idx,
                              knnQueried |-> TRUE, indices |-> ind,
                              result |-> [kind |-> "rows",
                                          recommendations |-> Slice(ind, cnt),
                                          original |-> idx]]
                      : ind \in KNeighbors(knn, tfidf_matrix[idx + 1]) }

\* The dict a call of load_models returns from the cache.
Handle == CHOOSE m \in cache : TRUE

(***************************************************************************)
(* Operations.                                                             *)
(***************************************************************************)
\* A script run starts: main up to models = load_models().  A load that raises
\* ends the run; the cache then holds nothing and the next run loads again.
Rerun ==
  /\ pc = "idle"
  /\ ResetLocals
  /\ fromCache' = ~RunsBody(cache)
  /\ IF RunsBody(cache)
       THEN /\ \A f \in FilesRead(disk) : reads[f] < MaxReads
            /\ reads' = [f \in Files |->
                           IF f \in FilesRead(disk) THEN reads[f] + 1 ELSE reads[f]]
            /\ IF LoadSucceeds(disk)
                 THEN cache' = {LoadModels(disk)} /\ pc' = "widgets" /\ outcome' = "none"
                 ELSE cache' = cache /\ pc' = "idle" /\ outcome' = "fatal"
       ELSE /\ UNCHANGED <<cache, reads>>
            /\ pc' = "widgets"
            /\ outcome' = "none"
  /\ UNCHANGED disk

\* main from st.text_input to the call of get_recommendations: the text typed
\* and whether the button was pressed in this run.
Trigger(title, press) ==
  /\ pc = "widgets"
  /\ movie_title' = title
  /\ pressed' = press
  /\ IF press /\ title # <<>>
       THEN pc' = "call" /\ caller' = "main" /\ n' = MainN /\ outcome' = "none"
       ELSE /\ pc' = "idle"
            /\ outcome' = IF press THEN "warning" ELSE "none"
            /\ UNCHANGED <<caller, n>>
  /\ UNCHANGED <<disk, cache, reads, fromCache, matcherInvoked, knnQueried,
                 matches, movie_idx, indices, result>>

\* get_recommendations called on the cached handle with a count of the caller's
\* choice (main always passes 5).
Call(title, cnt) ==
  /\ pc = "idle"
  /\ cache # {}
  /\ fromCache' = FALSE
  /\ pressed' = FALSE
  /\ matcherInvoked' = FALSE
  /\ knnQueried' = FALSE
  /\ matches' = <<>>
  /\ movie_idx' = NoRow
  /\ indices' = <<>>
  /\ result' = NoResult
  /\ caller' = "direct"
  /\ movie_title' = title
  /\ n' = cnt
  /\ pc' = "call"
  /\ outcome' = "none"
  /\ UNCHANGED <<disk, cache, reads>>

\* get_recommendations runs.  An exception leaves main: the run ends.
Recommend ==
  /\ pc = "call"
  /\ \E x \in GetRecommendations(movie_title, Handle, n) :
       /\ matcherInvoked' = TRUE
       /\ knnQueried' = x.knnQueried
       /\ matches' = x.matches
       /\ movie_idx' = x.movie_idx
       /\ indices' = x.indices
       /\ result' = x.result
       /\ pc' = IF caller = "main" /\ x.result.kind # "raise" THEN "render" ELSE "idle"
       /\ outcome' = IF caller = "main" /\ x.result.kind = "raise"
                       THEN "exception" ELSE outcome
  /\ UNCHANGED <<disk, cache, reads, fromCache, caller, pressed, movie_title, n>>

\* all_genres of show_genre_wordcloud: the genres of the rows at positions
\* recs, flattened.
RECURSIVE AllGenres(_, _)
AllGenres(movies, recs) ==
  IF recs = <<>> THEN <<>>
  ELSE movies[Head(recs) + 1].genres \o AllGenres(movies, Tail(recs))

\* Whether show_genre_wordcloud raises: WordCloud.generate raises ValueError
\* on a text without a word.
WordCloudRaises(movies, recs) == AllGenres(movies, recs) = <<>>

\* main after the call: st.error, or st.success, the cards and the charts.
\* The word cloud is the first chart; when it raises the run ends there, with
\* the success message already shown.
Report ==
  /\ pc = "render"
  /\ outcome' = IF result.kind = "none" THEN "error"
                ELSE IF WordCloudRaises(Handle.movies, result.recommendations)
                  THEN "success+exception"
                ELSE "success"
  /\ pc' = "idle"
  /\ UNCHANGED <<disk, cache, reads, locals>>

Next ==
  \/ Rerun
  \/ \E title \in InputPool, press \in BOOLEAN : Trigger(title, press)
  \/ \E title \in InputPool, cnt \in 1..MaxN : Call(title, cnt)
  \/ Recommend
  \/ Report

(***************************************************************************)
(* Specifications.                                                         *)
(***************************************************************************)
\* Catalogs of any titles under any labels; features, index and files in order.
MatcherDisks ==
  Disks(AnyTitles, OneGenre, LabelSchemes, OwnFeats, {2}, {<<0, 0>>},
        {AllPresent})

\* Catalogs whose rows have their own titles; any features, any trained
\* neighbor count, labels that are or are not the positions, and dimensions
\* that agree or not.
RecommenderDisks ==
  Disks(OwnTitles, OneGenre, {"range", "shift"}, AnyFeats, 1..MaxK, DimPool,
        {AllPresent})
    \cup Disks(OwnTitles, OneGenre, {"range", "shift"}, OwnFeats, 1..MaxK, LongDims,
               {AllPresent})

\* Artifact sets of which some file may be missing.
StoreDisks ==
  Disks(OwnTitles, OneGenre, {"range"}, OwnFeats, {2}, {<<0, 0>>}, PresentPool)

\* Catalogs whose rows have any genres, or none; artifacts that agree.
ChartDisks ==
  Disks(OwnTitles, AnyGenres, {"range"}, OwnFeats, 1..MaxK, {<<0, 0>>},
        {AllPresent})

Init ==
  InitOn(MatcherDisks \cup RecommenderDisks \cup StoreDisks \cup ChartDisks)
Spec == Init /\ [][Next]_vars

\* The Matcher's input space alone.
InitMatcher == InitOn(MatcherDisks)
SpecMatcher == InitMatcher /\ [][Next]_vars

\* The Recommender's input space alone.
InitRecommender == InitOn(RecommenderDisks)
SpecRecommender == InitRecommender /\ [][Next]_vars

\* The Model Store's input space alone.
InitStore == InitOn(StoreDisks)
SpecStore == InitStore /\ [][Next]_vars


(***************************************************************************)
(* Properties.                                                             *)
(***************************************************************************)
\* The catalog of the loaded handle, and its parts.
Movies == disk.movies
Rows == Len(disk.movies)

\* The artifacts agree: every label is its row's position, and the matrix and
\* the index hold one vector per catalog row.
Aligned ==
  /\ \A i \in 1..Rows : Movies[i].label = i - 1
  /\ Len(disk.tfidf_matrix) = Rows
  /\ disk.knn.fit_X = disk.tfidf_matrix

\* get_recommendations has run in this run or call.
Returned == matcherInvoked /\ pc \in {"idle", "render"}

\* Ratio of row i's case-folded title against the case-folded input, as
\* get_close_matches computes it.
TitleRatio(i) == Ratio(Lower(Movies[i].title), Lower(movie_title))

\* Distance of fitted sample p from the vector the index was queried with.
QueryDist(p) == Dist(disk.tfidf_matrix[movie_idx + 1], disk.knn.fit_X[p + 1])

\* The rows whose title case-folds to the matched string.
Folded == {i \in 1..Rows : Lower(Movies[i].title) = matches[1]}

\* C1: a call resolved to row i never returns a result containing row i, for
\* every answer of the index; stated for artifacts that agree, where i is both
\* the matched row and the row queried.
C1_NoSelf ==
  (Returned /\ Aligned /\ result.kind = "rows")
    => \A j \in 1..Len(result.recommendations) :
         result.recommendations[j] # result.original

\* C2: a call that resolves a row returns exactly min(n, catalog_size - 1)
\* rows without error, whatever neighbor count the index was trained with;
\* stated for artifacts that agree.
C2_Length ==
  (Returned /\ Aligned /\ matches # <<>>)
    => /\ result.kind = "rows"
       /\ Len(result.recommendations) = Min(n, Rows - 1)

\* C3 as claimed: input equal to an existing title resolves to a row with
\* exactly that title, also when another row's title case-folds to the same
\* string.
C3_ExactRow ==
  (Returned /\ \E i \in 1..Rows : Movies[i].title = movie_title)
    => /\ matches # <<>>
       /\ \E i \in 1..Rows :
            Movies[i].label = movie_idx /\ Movies[i].title = movie_title

\* C3 as amended: input equal to an existing title is matched to that title's
\* case-folded string with ratio 1.0, and the row selected is the first row of
\* the catalog whose title case-folds to that string.
C3_FirstFolded ==
  (Returned /\ \E i \in 1..Rows : Movies[i].title = movie_title)
    => /\ matches = <<Lower(movie_title)>>
       /\ Ratio(matches[1], Lower(movie_title)) = <<2 * Len(movie_title),
                                                    2 * Len(movie_title)>>
       /\ \E i \in 1..Rows :
            /\ Movies[i].label = movie_idx
            /\ Lower(Movies[i].title) = Lower(movie_title)
            /\ \A j \in 1..(i - 1) : Lower(Movies[j].title) # Lower(movie_title)

\* C3's case: the input is the title of a row, and an earlier row has another
\* title that case-folds to the same string.
C3_Witness ==
  /\ Returned
  /\ \E i \in 1..Rows : Movies[i].title = movie_title
  /\ \E i \in 1..Rows :
       /\ Movies[i].label = movie_idx
       /\ Movies[i].title # movie_title
       /\ Lower(Movies[i].title) = Lower(movie_title)

\* C4: a pressed button gives exactly one of warning, error and success: empty
\* input the warning, with neither lookup run; no match the error, with the
\* index not queried; a match the success, with the index queried.  Stated for
\* artifacts that agree and an index trained with no more neighbors than the
\* catalog has rows, where get_recommendations does not raise.
C4_Outcomes ==
  (pc = "idle" /\ pressed /\ Aligned /\ disk.knn.n_neighbors <= Rows)
    => /\ outcome \in {"warning", "error", "success"}
       /\ movie_title = <<>>
            => outcome = "warning" /\ ~matcherInvoked /\ ~knnQueried
       /\ (movie_title # <<>> /\ matches = <<>>)
            => outcome = "error" /\ matcherInvoked /\ ~knnQueried
       /\ (movie_title # <<>> /\ matches # <<>>)
            => outcome = "success" /\ matcherInvoked /\ knnQueried

\* C5: get_recommendations returns (None, None) exactly when no case-folded
\* title has ratio >= 0.3 with the case-folded input, and otherwise the row it
\* selects has a case-folded title of the greatest ratio in the catalog.
C5_Threshold ==
  Returned
    => /\ result.kind = "none" <=> \A i \in 1..Rows : ~AtLeastCutoff(TitleRatio(i))
       /\ matches = <<>> <=> result.kind = "none"
       /\ matches # <<>>
            => \E i \in 1..Rows :
                 /\ Movies[i].label = movie_idx
                 /\ Lower(Movies[i].title) = matches[1]
                 /\ AtLeastCutoff(TitleRatio(i))
                 /\ \A j \in 1..Rows : ~RatioLess(TitleRatio(i), TitleRatio(j))

\* C5's case: a row is selected although an earlier row also clears the
\* cutoff with a smaller ratio, and some row has a positive ratio below it.
C5_Witness ==
  /\ Returned
  /\ matches # <<>>
  /\ \E i, j, h \in 1..Rows :
       /\ Movies[i].label = movie_idx
       /\ j < i
       /\ AtLeastCutoff(TitleRatio(j))
       /\ RatioLess(TitleRatio(j), TitleRatio(i))
       /\ ~AtLeastCutoff(TitleRatio(h))
       /\ TitleRatio(h)[1] > 0

\* C6 as claimed: over any sequence of script runs no artifact file is read
\* more than once, and the cache holds nothing but the handle loaded.
C6_ReadOnce ==
  /\ \A f \in Files : reads[f] <= 1
  /\ cache \subseteq {LoadModels(disk)}

\* C6 as amended: once load_models has returned, the cache holds that one
\* handle, unchanged, and every file has been read exactly once, however many
\* runs follow; while no load has succeeded the cache is empty.
C6_LoadedOnce ==
  /\ cache \subseteq {LoadModels(disk)}
  /\ cache # {} => \A f \in Files : reads[f] = 1
  /\ cache = {} => ~fromCache /\ pc = "idle"

\* C6's case: a run after the one that loaded has been answered from the cache
\* and has gone through a lookup.
C6_Witness ==
  /\ fromCache
  /\ cache = {LoadModels(disk)}
  /\ outcome = "success"

\* C7: with artifacts whose row counts are not all equal no run or call
\* reaches the Matcher or the Recommender.
C7_FailsOnMismatch ==
  ~(Len(disk.tfidf_matrix) = Rows /\ Len(disk.knn.fit_X) = Rows)
    => ~matcherInvoked /\ ~knnQueried

\* C8: the rows returned are positions 1..n of the index's answer in the
\* answer's order, without duplicates, so their distance from the query vector
\* never decreases from one to the next.
C8_Order ==
  (Returned /\ result.kind = "rows")
    => LET recs == result.recommendations
       IN /\ Len(recs) = Min(n, Len(indices) - 1)
          /\ \A i \in 1..Len(recs) : recs[i] = indices[i + 1]
          /\ \A i, j \in 1..Len(recs) : i # j => recs[i] # recs[j]
          /\ \A i \in 1..(Len(recs) - 1) : QueryDist(recs[i]) <= QueryDist(recs[i + 1])

\* C8's case: two rows are returned, the farther one second, against their
\* order in the catalog.
C8_Witness ==
  /\ Returned
  /\ result.kind = "rows"
  /\ Len(result.recommendations) >= 2
  /\ result.recommendations[1] > result.recommendations[2]
  /\ QueryDist(result.recommendations[1]) < QueryDist(result.recommendations[2])

\* C9: when several titles case-fold to the matched string, the row selected
\* is the first of them in catalog order.
C9_FirstRow ==
  (Returned /\ matches # <<>>)
    => \E i \in Folded :
         /\ Movies[i].label = movie_idx
         /\ \A j \in Folded : i <= j

\* C9's case: two rows with different titles case-fold to the matched string.
C9_Witness ==
  /\ Returned
  /\ matches # <<>>
  /\ \E i, j \in Folded : Movies[i].title # Movies[j].title

\* C10: in every call that returns rows, the row whose vector was sent to the
\* index and the anchor row returned are the catalog row whose case-folded
\* title is the matched string, under any index labels.
C10_Alignment ==
  (Returned /\ result.kind = "rows")
    => /\ movie_idx = result.original
       /\ Lower(Movies[result.original + 1].title) = matches[1]
       /\ \A j \in Folded : result.original + 1 <= j

====
